---------------------------- MODULE Spec2Model ----------------------------
(***************************************************************************)
(* Model of DL7480CTL.py: the instrument session (YokogawaDL7480), the     *)
(* block decoder of capture(), the command chunker splitInst() and the     *)
(* save / load / undo handlers of the Gui class.                           *)
(*                                                                         *)
(* Eight specifications share the module:                                    *)
(*   Spec       the session on a bus of several instruments                *)
(*   SpecStore  the slot files, the backup file and the scope on the bench *)
(*   SpecHandlers  every handler of the Gui with one scope on the bench     *)
(*   SpecChunk  splitInst() applied to bounded composite strings           *)
(*   SpecLoop   the loop of splitInst() step by step on the same strings    *)
(*   SpecBlock  the block decoder of capture() applied to bounded replies  *)
(*   SpecFilter the option filter of getconfig() on bounded display replies *)
(*   SpecSnap   getconfig() over section replies of bounded length          *)
(***************************************************************************)
EXTENDS Integers, Sequences, FiniteSets, TLC

VARIABLES
    \* YokogawaDL7480 (src/DL7480CTL.py:330-334)
    inst,        \* 0 for None, else the address (index) of the bound transport
    rm,          \* TRUE when a resource manager is held
    devname,     \* "", "DL7440" or "DL7480"
    opt,         \* the stored option string, as its set of tokens
    \* the transport layer
    open,        \* addresses whose transport is open
    timeout,     \* timeout of the bound transport, ms (0 when none is bound)
    \* Gui (src/DL7480CTL.py:74-78)
    status,      \* 'init', 'connected' or 'failed'
    lastSavedId, \* self.lastSavedId
    \* the files in the working directory
    slots,       \* slots[n]: content of DL74x0-<n>.dat, or Absent
    bkup,        \* content of DL74x0-bkup.dat, or Absent
    \* the oscilloscope
    scope,       \* the scope on the bench: its model code and its options
    cfg,         \* the live configuration of the scope
    \* observation of the last handler run
    result,      \* what the last handler did and returned
    sent,        \* the lines the last handler passed to inst.write, in order
    pre,         \* what the last save / load replaced
    \* splitInst() on its own
    chunkIn, chunkOut,
    \* the block decoder on its own
    blockIn, blockOut,
    \* the option filter of getconfig() on its own
    filterIn, filterOut,
    \* the snapshot of getconfig() over replies of some length
    snapIn, snapOut,
    \* the loop of splitInst() step by step: the string s, the list r and
    \* the place reached ("idle", "start", "loop", "done")
    loopS, loopR, loopPc

vars == <<inst, rm, devname, opt, open, timeout, status, lastSavedId,
          slots, bkup, scope, cfg, result, sent, pre,
          chunkIn, chunkOut, blockIn, blockOut, filterIn, filterOut,
          snapIn, snapOut, loopS, loopR, loopPc>>

sessionVars == <<inst, rm, devname, opt, open, timeout, status, lastSavedId,
                 slots, bkup, scope, cfg, result, sent, pre>>
chunkVars == <<chunkIn, chunkOut>>
blockVars == <<blockIn, blockOut>>
filterVars == <<filterIn, filterOut>>
snapVars == <<snapIn, snapOut>>
loopVars == <<loopS, loopR, loopPc>>

-----------------------------------------------------------------------------
(***************************************************************************)
(* Strings.  A string is a sequence of tokens; a token is one of the       *)
(* characters the code looks at (';', ':', '\n'), the literal '*WAI', or a *)
(* run of n other characters.  Only the length and the identity of a run   *)
(* matter to strip(), len() and the regular expressions of splitInst().    *)
(***************************************************************************)
Tok(k, id, n) == [k |-> k, id |-> id, n |-> n]
SEMI  == Tok("semi", 0, 1)
COLON == Tok("colon", 0, 1)
NL    == Tok("nl", 0, 1)
WAI   == Tok("wai", 0, 4)
Txt(id, n) == Tok("txt", id, n)

RECURSIVE StrLen(_)
StrLen(s) == IF s = <<>> THEN 0 ELSE Head(s).n + StrLen(Tail(s))

RECURSIVE LStrip(_, _)
LStrip(s, ks) ==
    IF s # <<>> /\ Head(s).k \in ks THEN LStrip(Tail(s), ks) ELSE s

RECURSIVE RStrip(_, _)
RStrip(s, ks) ==
    IF s # <<>> /\ s[Len(s)].k \in ks
    THEN RStrip(SubSeq(s, 1, Len(s) - 1), ks) ELSE s

\* str.strip(chars)
Strip(s, ks) == RStrip(LStrip(s, ks), ks)

RECURSIVE Flatten(_)
Flatten(ss) == IF ss = <<>> THEN <<>> ELSE Head(ss) \o Flatten(Tail(ss))

-----------------------------------------------------------------------------
(***************************************************************************)
(* splitInst()                                                             *)
(***************************************************************************)
\* 1024-6: below this length the argument is wrapped as one chunk
WholeLimit == 1024 - 6
\* the repetition bound of the pattern  ^;(:.{,1018};):
SpanLimit == 1018

\* TRUE when '.'{0,1018} can match s[3..j-1]: '.' matches no newline
DotSpan(s, j) ==
    /\ StrLen(SubSeq(s, 3, j - 1)) <= SpanLimit
    /\ \A i \in 3..(j - 1) : s[i].k # "nl"

\* The ends j of group 1 (the index of its closing ';') over which
\* ^;(:.{,1018};):  matches s
MatchEnds(s) ==
    {j \in 3..(Len(s) - 1) :
        /\ s[1].k = "semi" /\ s[2].k = "colon"
        /\ s[j].k = "semi" /\ s[j + 1].k = "colon"
        /\ DotSpan(s, j)}

\* re.search(r'^;(:.{,1018};):', s): the quantifier is greedy, so the match
\* is the longest one; 0 stands for None
ReSearch(s) ==
    IF MatchEnds(s) = {} THEN 0
    ELSE CHOOSE j \in MatchEnds(s) : \A i \in MatchEnds(s) : i <= j

\* '*WAI;' + m.group(1) + '\n'
ChunkOfMatch(s, j) == <<WAI, SEMI>> \o SubSeq(s, 2, j) \o <<NL>>

\* a slip: the text after the match, without the ':' the match consumed
RestDropColon(s, j) == <<SEMI>> \o SubSeq(s, j + 2, Len(s))

\* a slip: the slice taken from the start of the match, not from its end
RestFromMatch(s, j) == <<SEMI, COLON>> \o SubSeq(s, 2, Len(s))

\* s = ';:' + s[m.span(0)[1] : ]
RestAfterMatch(s, j) == <<SEMI, COLON>> \o SubSeq(s, j + 2, Len(s))

\* '*WAI;' + s.strip(';') + '\n'
LastChunk(s) == <<WAI, SEMI>> \o Strip(s, {"semi"}) \o <<NL>>

\* the while loop of splitInst and the statement after it; r is the list r
RECURSIVE SplitLoop(_, _)
SplitLoop(s, r) ==
    LET j == ReSearch(s) IN
    IF j # 0
    THEN SplitLoop(RestAfterMatch(s, j), Append(r, ChunkOfMatch(s, j)))
    ELSE IF StrLen(s) > 0 THEN Append(r, LastChunk(s)) ELSE r

\* a slip: the short argument wrapped without  .strip(';\n')
splitInstNoStrip(arg) ==
    IF StrLen(arg) < WholeLimit
    THEN << <<WAI, SEMI>> \o arg \o <<NL>> >>
    ELSE SplitLoop(<<SEMI>> \o Strip(arg, {"semi", "nl"}) \o <<SEMI>>, <<>>)

\* The chunks splitInst(arg) joins, in order
splitInstChunks(arg) ==
    IF StrLen(arg) < WholeLimit
    THEN << <<WAI, SEMI>> \o Strip(arg, {"semi", "nl"}) \o <<NL>> >>
    ELSE SplitLoop(<<SEMI>> \o Strip(arg, {"semi", "nl"}) \o <<SEMI>>, <<>>)

\* splitInst(arg): ''.join(r)
splitInst(arg) == Flatten(splitInstChunks(arg))

-----------------------------------------------------------------------------
(***************************************************************************)
(* The block decoder of capture().  A byte is one of "#", "nl" (the line   *)
(* terminator), a decimal digit "0".."9", or "x" (any other byte).  The    *)
(* reply of the scope is the sequence of bytes it sends; a read past its   *)
(* end times out (pyvisa.errors.VisaIOError).                              *)
(***************************************************************************)
Digits == <<"0", "1", "2", "3", "4", "5", "6", "7", "8", "9">>
IsDigit(b) == \E i \in 1..10 : Digits[i] = b
DigitVal(b) == (CHOOSE i \in 1..10 : Digits[i] = b) - 1

RECURSIVE DecimalVal(_, _)
DecimalVal(bs, acc) ==
    IF bs = <<>> THEN acc
    ELSE DecimalVal(Tail(bs), 10 * acc + DigitVal(Head(bs)))

RECURSIVE StripNl(_)
StripNl(bs) ==
    IF bs # <<>> /\ Head(bs) = "nl" THEN StripNl(Tail(bs))
    ELSE IF bs # <<>> /\ bs[Len(bs)] = "nl"
         THEN StripNl(SubSeq(bs, 1, Len(bs) - 1))
         ELSE bs

\* int(bytes): surrounding whitespace is ignored, what is left must be a
\* non-empty run of decimal digits; ok = FALSE stands for ValueError
ParseInt(bs) ==
    LET core == StripNl(bs) IN
    IF core # <<>> /\ \A i \in 1..Len(core) : IsDigit(core[i])
    THEN [ok |-> TRUE, val |-> DecimalVal(core, 0)]
    ELSE [ok |-> FALSE, val |-> 0]

\* inst.read_bytes(count, break_on_termchar=False) at position pos of the
\* reply: it returns once count bytes are in, at once when count <= 0
ReadOk(st, pos, count) == count <= 0 \/ pos + count - 1 <= Len(st)
ReadBytes(st, pos, count) ==
    IF count <= 0 THEN <<>> ELSE SubSeq(st, pos, pos + count - 1)
Advance(pos, count) == IF count <= 0 THEN pos ELSE pos + count

\* The first try block of capture(): marker, digit count, length field.
\* err: "none", "value" (ValueError) or "visa" (VisaIOError); pos: the next
\* byte to read; marker: the last byte read into shash
HeaderFail(e) == [err |-> e, pos |-> 0, nbyte |-> 0, marker |-> ""]
DecodeHeader(st) ==
    IF ~ReadOk(st, 1, 1) THEN HeaderFail("visa")
    ELSE
    LET first == st[1]
        again == first # "#"
        p1 == IF again THEN 3 ELSE 2
    IN  IF again /\ ~ReadOk(st, 2, 1) THEN HeaderFail("visa")
        ELSE IF ~ReadOk(st, p1, 1) THEN HeaderFail("visa")
        ELSE
        LET sdigit == ParseInt(<<st[p1]>>) IN
        IF ~sdigit.ok THEN HeaderFail("value")
        ELSE IF ~ReadOk(st, p1 + 1, sdigit.val) THEN HeaderFail("visa")
        ELSE
        LET sbyte == ParseInt(ReadBytes(st, p1 + 1, sdigit.val)) IN
        IF ~sbyte.ok THEN HeaderFail("value")
        ELSE [err |-> "none", pos |-> Advance(p1 + 1, sdigit.val),
              nbyte |-> sbyte.val,
              marker |-> IF again THEN st[2] ELSE first]

\* d0 == '\n': d0 is a bytes object and '\n' a str, which never compare equal
IsTerminator(d0) == FALSE

\* The second try block of capture(): speculative byte, payload, trailing
\* byte
DecodeBody(st, pos, nbyte) ==
    IF ~ReadOk(st, pos, 1) THEN [err |-> "visa", data |-> <<>>]
    ELSE
    LET d0 == st[pos]
        rest == IF IsTerminator(d0) THEN nbyte ELSE nbyte - 1
    IN  IF ~ReadOk(st, pos + 1, rest) THEN [err |-> "visa", data |-> <<>>]
        ELSE
        LET data == IF IsTerminator(d0) THEN ReadBytes(st, pos + 1, rest)
                    ELSE <<d0>> \o ReadBytes(st, pos + 1, rest)
        IN  IF ~ReadOk(st, Advance(pos + 1, rest), 1)
            THEN [err |-> "visa", data |-> <<>>]
            ELSE [err |-> "none", data |-> data]

\* Both try blocks: what capture() decodes from the reply st.
\* stage: "header" or "body" failure, or "done"
DecodeBlock(st) ==
    LET h == DecodeHeader(st) IN
    IF h.err # "none"
    THEN [stage |-> "header", err |-> h.err, nbyte |-> 0, data |-> <<>>,
          marker |-> h.marker]
    ELSE
    LET b == DecodeBody(st, h.pos, h.nbyte) IN
    [stage |-> IF b.err = "none" THEN "done" ELSE "body", err |-> b.err,
     nbyte |-> h.nbyte, data |-> b.data, marker |-> h.marker]

-----------------------------------------------------------------------------
(***************************************************************************)
(* The session: class YokogawaDL7480.  Methods are functions of the        *)
(* session record s (the fields of the object and the transports they      *)
(* refer to), so that a handler can call one inside another.               *)
(***************************************************************************)
\* the most USB resources one list_resources('USB?*') call returns
MaxCand == 2
\* the slot files the model follows (the window has buttons 1..8)
NumSlots == 2
\* a setting of the scope takes a value in 0..MaxVal
MaxVal == 1

Slots == 1..NumSlots
Vals == 0..MaxVal

\* The scopes the bench can hold: the model code of the identity string
\* 'YOKOGAWA,<code>,...' and the option tokens installed
ScopeCodes == {"701460", "701470"}
OptReplies == {{}, {"LOGIC", "USERDEFINE"}}
Scopes == [idn : ScopeCodes, opts : OptReplies]

\* What '*IDN?;' can give on one candidate: no answer in time ("TMO"), the
\* identity of another instrument, that of the scope
IdnReplies(sc) == {"TMO", "701440", sc.idn}

\* re.match(r'YOKOGAWA,7014[56]0', idn) and re.match(r'YOKOGAWA,7014[78]0', idn)
MatchesDL7440(idn) == idn \in {"701450", "701460"}
MatchesDL7480(idn) == idn \in {"701470", "701480"}

CurSess ==
    [inst |-> inst, rm |-> rm, devname |-> devname, opt |-> opt,
     open |-> open, timeout |-> timeout]

\* The binding of one matched candidate: the two if-blocks of connect() are
\* the same but for the name.  optOk = FALSE: the '*OPT?;' query times out,
\* outside the try block, with devname, inst and the timeout already set
Bind(s, i, name, hw, optOk) ==
    [s EXCEPT !.devname = name, !.inst = i, !.timeout = 5000,
              !.opt = IF optOk THEN hw ELSE @]

\* the devname the matching if-block sets, "" when neither pattern matches
FamilyName(idn) ==
    IF MatchesDL7440(idn) THEN "DL7440"
    ELSE IF MatchesDL7480(idn) THEN "DL7480" ELSE ""

\* The for loop of connect() from candidate i on.  scan[i] is the answer of
\* candidate i to '*IDN?;'.  Returns the session, whether an exception left
\* the loop, and the number of candidates opened.
RECURSIVE ScanLoop(_, _, _, _, _, _)
ScanLoop(s, scan, i, hw, optOk, tried) ==
    IF i > Len(scan) THEN [s |-> s, raised |-> FALSE, tried |-> tried]
    ELSE IF s.inst # 0 THEN ScanLoop(s, scan, i + 1, hw, optOk, tried)
    ELSE
    LET opened == [s EXCEPT !.open = @ \cup {i}] IN
    IF scan[i] = "TMO" THEN ScanLoop(opened, scan, i + 1, hw, optOk, tried + 1)
    ELSE IF FamilyName(scan[i]) # ""
    THEN [s |-> Bind(opened, i, FamilyName(scan[i]), hw, optOk),
          raised |-> ~optOk, tried |-> tried + 1]
    ELSE ScanLoop(opened, scan, i + 1, hw, optOk, tried + 1)

\* The transports still open when connect() is left.  connect() closes none
\* of the candidates it opened; a candidate it does not retain is referred
\* to by nothing, and whether the runtime has finalised (and so closed) it
\* by then is not decided by the code: gc says whether it has.
OpenAfterScan(before, after, gc) ==
    IF gc THEN before.open \cup (after.open \cap {after.inst}) ELSE after.open

\* connect(): ret is 1 for True, 0 for False, -1 when an exception escapes.
\* scan and tried tell what the call met: the bus and the number of
\* candidates it opened (none when a transport was bound already).
Connect(s, scan, hw, optOk, gc) ==
    IF s.inst # 0
    THEN [s |-> s, ret |-> 1, raised |-> FALSE, scan |-> <<>>, tried |-> 0]
    ELSE
    LET r == ScanLoop([s EXCEPT !.rm = TRUE], scan, 1, hw, optOk, 0)
        s2 == [r.s EXCEPT !.open = OpenAfterScan(s, r.s, gc)]
    IN  [s |-> s2,
         ret |-> IF r.raised THEN -1 ELSE IF s2.inst = 0 THEN 0 ELSE 1,
         raised |-> r.raised, scan |-> scan, tried |-> r.tried]

RECURSIVE SeqsUpTo(_, _)
SeqsUpTo(S, n) ==
    IF n = 0 THEN {<<>>}
    ELSE LET shorter == SeqsUpTo(S, n - 1) IN
         shorter \cup {Append(q, x) : q \in shorter, x \in S}

\* What surrounds a handler run: the buses a scan can meet (scans),
\* whether the queries of getconfig() are all answered (qOk), whether the
\* '*CLS' of an except clause goes through (clsOk).
\* AnyBus: up to MaxCand resources, each answering in one of the ways of
\* IdnReplies, and any write or query may time out.
AnyBus ==
    [scans |-> SeqsUpTo(IdnReplies(scope), MaxCand),
     qOk |-> BOOLEAN, clsOk |-> BOOLEAN]

\* Bench: the scope is the one resource of the bus and answers '*IDN?;',
\* the queries of getconfig() and '*CLS'; the option query and the write
\* of a line may still time out.
Bench == [scans |-> {<<scope.idn>>}, qOk |-> {TRUE}, clsOk |-> {TRUE}]

\* HungBench: the same, but a scope that has let a write time out may let
\* the '*CLS' that follows time out as well
HungBench == [scans |-> {<<scope.idn>>}, qOk |-> {TRUE}, clsOk |-> BOOLEAN]

\* Every way a call of connect() can end in session s, over the buses of E
\* and how the scope answers the option query
ConnectRuns(s, E) ==
    IF s.inst # 0 THEN {Connect(s, <<>>, {}, TRUE, TRUE)}
    ELSE {Connect(s, scan, scope.opts, optOk, gc) :
            scan \in E.scans, optOk \in BOOLEAN, gc \in BOOLEAN}

\* The same, for a handler that looks at the session and at the value
\* returned only
ConnectOutcomes(s, E) ==
    {[s |-> c.s, ret |-> c.ret, raised |-> c.raised] : c \in ConnectRuns(s, E)}

\* self.inst.before_close(); self.inst.close(); self.inst = None
CloseInst(s) ==
    [s EXCEPT !.open = @ \ {s.inst}, !.inst = 0, !.timeout = 0]

\* if self.rm != None: self.rm.close(); self.rm = None.  Closing the
\* resource manager closes every transport opened through it.
CloseRm(s) == IF s.rm THEN [s EXCEPT !.open = {}, !.rm = FALSE] ELSE s

\* __del__()
Del(s) ==
    CloseRm(IF s.inst # 0
            THEN [CloseInst(s) EXCEPT !.devname = "", !.opt = {}]
            ELSE s)

\* closeinst(): devname and opt are left as they are
closeinst(s) == CloseRm(IF s.inst # 0 THEN CloseInst(s) ELSE s)

\* getopt(arg): arg.upper() in self.opt.upper()
getopt(s, arg) == IF s.inst = 0 THEN FALSE ELSE arg \in s.opt

-----------------------------------------------------------------------------
(***************************************************************************)
(* The scope and its configuration.  cfg.acq stands for the settings every *)
(* scope answers and accepts, cfg.pod for the settings of the logic input, *)
(* which a scope without that option rejects.  The other sections are      *)
(* queried and replayed with a fixed content.  A command is a section tag  *)
(* and a value; a line is the sequence of commands of one write.           *)
(***************************************************************************)
Cmd(sec, val) == [sec |-> sec, val |-> val]
Configs == [acq : Vals, pod : Vals]

\* The answer of the scope to one section query, command by command
DevReply(c, q) ==
    CASE q = "ACQ"  -> <<Cmd("ACQ", c.acq)>>
      [] q = "DISP" -> <<Cmd("DISP", 0), Cmd("POD", c.pod), Cmd("DISP", 1)>>
      [] q = "MATH" -> <<Cmd("MATH", 0), Cmd("UDEF", 0), Cmd("MATH", 1)>>
      [] OTHER      -> <<Cmd(q, 0)>>

\* re.sub(r'<path of secs>.+?;[:\n]', ':', reply): the pattern starts at
\* the ':' that opens a command under the path and ends with the ';:' that
\* opens the next command.  A command under the path is taken out when
\* another follows it, that is when it is not the last of the reply (the
\* query has dropped the newline that ends the reply); the search goes on
\* behind the ':' of the command that follows, which is therefore kept
\* whatever it is.
RECURSIVE StripCmds(_, _)
StripCmds(reply, secs) ==
    IF reply = <<>> THEN <<>>
    ELSE IF Head(reply).sec \in secs /\ Tail(reply) # <<>>
         THEN <<reply[2]>> \o StripCmds(Tail(Tail(reply)), secs)
         ELSE <<Head(reply)>> \o StripCmds(Tail(reply), secs)

\* if self.getopt(option) == False: reply = re.sub(...)
Filtered(s, reply, option, secs) ==
    IF getopt(s, option) = FALSE THEN StripCmds(reply, secs) ELSE reply

\* '*WAI;' + reply: one line.  The replies of this specification are
\* shorter than WholeLimit, for which splitInst() gives one chunk
WaiLine(reply) == <<Cmd("WAI", 0)>> \o reply

\* the channel queries: four, and four more on a DL7480; one line stands
\* for each group of four
ChannelLines(s, c) ==
    << WaiLine(DevReply(c, "CH1-4")) >>
    \o (IF s.devname = "DL7480" THEN << WaiLine(DevReply(c, "CH5-8")) >>
        ELSE <<>>)

\* getconfig() with a transport bound and every query answered: the
\* snapshot, line by line.  The sections getconfig() treats alike are
\* followed through one of them: acquisition for the sections included as
\* they are answered (cursor, measurement, phase, timebase, trigger, on
\* whose replies the pattern ':TRIG:CAN:' finds nothing), display for those
\* filtered on LOGIC (search, zoom), math for the one filtered on
\* USERDEFINE.  The lines ';' between the sections are left out.
DisplayLine(s, reply) == WaiLine(Filtered(s, reply, "LOGIC", {"POD"}))

getconfig(s, c) ==
    << <<Cmd("STOP", 0)>>, WaiLine(DevReply(c, "ACQ")) >>
    \o ChannelLines(s, c)
    \o << DisplayLine(s, DevReply(c, "DISP")),
          WaiLine(Filtered(s, DevReply(c, "MATH"), "USERDEFINE", {"UDEF"})) >>

\* What one command does to the scope that receives it
ApplyCmd(c, cmd, logic) ==
    IF cmd.sec = "ACQ" THEN [c EXCEPT !.acq = cmd.val]
    ELSE IF cmd.sec = "POD" /\ logic THEN [c EXCEPT !.pod = cmd.val]
    ELSE c

RECURSIVE ApplyLine(_, _, _)
ApplyLine(c, line, logic) ==
    IF line = <<>> THEN c
    ELSE ApplyLine(ApplyCmd(c, Head(line), logic), Tail(line), logic)

\* The files: a slot or the backup is absent, or holds the lines written
Absent == [exists |-> FALSE, lines |-> <<>>]
File(lines) == [exists |-> TRUE, lines |-> lines]

ClsLine == <<Cmd("CLS", 0)>>

\* setconfig(arg) with a transport bound.  how: "ok", "tmo" (the write
\* times out and the '*CLS' of the handler goes through) or "tmocls" (the
\* '*CLS' times out too, and its exception leaves setconfig with the
\* timeout at 20000).  A write that timed out has not reached the scope.
\* wtmo: the timeout in force when arg is written.
WriteTimeout == 20000

\* a slip: the except clause without its  self.inst.timeout = timeout
setconfigNoRestore(s, c, line, how) ==
    LET wide == [s EXCEPT !.timeout = WriteTimeout] IN
    CASE how = "ok" ->
            [s |-> s, cfg |-> ApplyLine(c, line, "LOGIC" \in scope.opts),
             sent |-> <<line>>, ret |-> 1, raised |-> FALSE,
             wtmo |-> wide.timeout]
      [] how = "tmo" ->
            [s |-> wide, cfg |-> c, sent |-> <<line, ClsLine>>, ret |-> 0,
             raised |-> FALSE, wtmo |-> wide.timeout]
      [] OTHER ->
            [s |-> wide, cfg |-> c, sent |-> <<line, ClsLine>>, ret |-> -1,
             raised |-> TRUE, wtmo |-> wide.timeout]

setconfig(s, c, line, how) ==
    LET saved == s.timeout
        wide == [s EXCEPT !.timeout = WriteTimeout]
    IN
    CASE how = "ok" ->
            [s |-> [wide EXCEPT !.timeout = saved],
             cfg |-> ApplyLine(c, line, "LOGIC" \in scope.opts),
             sent |-> <<line>>, ret |-> 1, raised |-> FALSE,
             wtmo |-> wide.timeout]
      [] how = "tmo" ->
            [s |-> [wide EXCEPT !.timeout = saved], cfg |-> c,
             sent |-> <<line, ClsLine>>, ret |-> 0, raised |-> FALSE,
             wtmo |-> wide.timeout]
      [] OTHER ->
            [s |-> wide, cfg |-> c,
             sent |-> <<line, ClsLine>>, ret |-> -1, raised |-> TRUE,
             wtmo |-> wide.timeout]

\* for line in fp: self.dl7480.setconfig(line), from line i on, with a
\* transport bound.  failAt: the line whose write times out (0: none);
\* clsOk: whether the '*CLS' after it goes through.
RECURSIVE SendLines(_, _, _, _, _, _, _)
SendLines(s, c, lines, i, failAt, clsOk, log) ==
    IF i > Len(lines)
    THEN [s |-> s, cfg |-> c, sent |-> log, raised |-> FALSE]
    ELSE
    LET how == IF i # failAt THEN "ok" ELSE IF clsOk THEN "tmo" ELSE "tmocls"
        r == setconfig(s, c, lines[i], how)
    IN  IF r.raised
        THEN [s |-> r.s, cfg |-> r.cfg, sent |-> log \o r.sent,
              raised |-> TRUE]
        ELSE SendLines(r.s, r.cfg, lines, i + 1, failAt, clsOk,
                       log \o r.sent)

-----------------------------------------------------------------------------
(***************************************************************************)
(* getconfig() over replies of some length.  replies[q] is what            *)
(* inst.query(q) returns, the newline that ends the reply taken off; the   *)
(* replies hold no command under a path that getconfig() filters, so that  *)
(* re.sub() leaves them as they are and .strip(':') acts on their ends.    *)
(***************************************************************************)
\* '*WAI;' + self.inst.query(q).strip() + ';\n'
QueryLine(reply) == <<WAI, SEMI>> \o Strip(reply, {"nl"}) \o <<SEMI, NL>>

\* if self.getopt(option) == False: x = re.sub(...).strip(':')
StripColons(s, x, option) ==
    IF getopt(s, option) = FALSE THEN Strip(x, {"colon"}) ELSE x

\* the line ';' that the f-string of the return puts behind a section
SepLine == <<SEMI, NL>>

ChannelQueries(s) ==
    <<"CH1", "CH2", "CH3", "CH4">>
    \o (IF s.devname = "DL7480" THEN <<"CH5", "CH6", "CH7", "CH8">>
        ELSE <<>>)

\* The text getconfig() returns, line by line, each with its newline
SnapshotLines(s, replies) ==
    LET chan == [i \in 1..Len(ChannelQueries(s)) |->
                    QueryLine(replies[ChannelQueries(s)[i]])]
        curs == splitInstChunks(replies["CURS"])
        disp == splitInstChunks(StripColons(s, replies["DISP"], "LOGIC"))
        math == splitInstChunks(StripColons(s, replies["MATH"], "USERDEFINE"))
        meas == splitInstChunks(replies["MEAS"])
        sear == splitInstChunks(
                    StripColons(s, <<WAI, SEMI>> \o replies["SEAR"], "LOGIC"))
        phas == splitInstChunks(replies["PHAS"])
        tbas == splitInstChunks(replies["TBAS"])
        trig == splitInstChunks(replies["TRIG"])
        zoom == splitInstChunks(
                    StripColons(s, <<WAI, SEMI>> \o replies["ZOOM"], "LOGIC"))
    IN  << <<COLON, Txt(0, 4), SEMI, NL>>, QueryLine(replies["ACQ"]), SepLine >>
        \o chan \o <<SepLine>> \o curs \o <<SepLine>> \o disp \o <<SepLine>>
        \o math \o <<SepLine>> \o meas \o <<SepLine>> \o sear \o <<SepLine>>
        \o phas \o <<SepLine>> \o tbas \o <<SepLine>> \o trig \o << <<NL>> >>
        \o zoom \o <<SepLine>>

-----------------------------------------------------------------------------
(***************************************************************************)
(* The handlers.  Each is one action: the whole method, the calls it makes *)
(* included.  result tells what the last handler did: ret is the value     *)
(* returned (1 / 0 for True / False, -1 for None or none), raised whether  *)
(* an exception left the handler, fault whether a device transaction of    *)
(* the handler failed.                                                     *)
(***************************************************************************)
Res(op, arg, ret, raised, msg, fault) ==
    [op |-> op, arg |-> arg, ret |-> ret, raised |-> raised, msg |-> msg,
     fault |-> fault, scan |-> <<>>, tried |-> 0, wtmo |-> 0]
NoRes == Res("none", 0, -1, FALSE, "", FALSE)

\* pre: the content of the slot a save replaced, the configuration a load
\* replaced
NoPre == [slot |-> Absent, cfg |-> [acq |-> 0, pod |-> 0]]

SetSess(s) ==
    /\ inst' = s.inst
    /\ rm' = s.rm
    /\ devname' = s.devname
    /\ opt' = s.opt
    /\ open' = s.open
    /\ timeout' = s.timeout

\* A scan that failed on a device transaction: the option query
ScanFault(c) == c.raised

\* connect() called on its own
ConnectCall(E) ==
    \E c \in ConnectRuns(CurSess, E) :
        /\ SetSess(c.s)
        /\ result' = [Res("connect", 0, c.ret, c.raised, "", ScanFault(c))
                          EXCEPT !.scan = c.scan, !.tried = c.tried]
        /\ sent' = <<>>
        /\ pre' = NoPre
        /\ UNCHANGED <<status, lastSavedId, slots, bkup, scope, cfg>>

\* closeinst() called on its own
CloseInstCall ==
    /\ SetSess(closeinst(CurSess))
    /\ result' = Res("closeinst", 0, -1, FALSE, "", FALSE)
    /\ sent' = <<>>
    /\ pre' = NoPre
    /\ UNCHANGED <<status, lastSavedId, slots, bkup, scope, cfg>>

\* __del__()
DelCall ==
    /\ SetSess(Del(CurSess))
    /\ result' = Res("del", 0, -1, FALSE, "", FALSE)
    /\ sent' = <<>>
    /\ pre' = NoPre
    /\ UNCHANGED <<status, lastSavedId, slots, bkup, scope, cfg>>

\* The lines setconfig() is called with on its own
SetLines == {<<Cmd("ACQ", v)>> : v \in Vals}

\* setconfig(arg) called on its own: connect() when no transport is bound
\* (c: how that ends), then the write
SetConfigOutcome(c, line, how) ==
    IF c.raised
    THEN [s |-> c.s, cfg |-> cfg, sent |-> <<>>,
          result |-> Res("setconfig", 0, -1, TRUE, "", TRUE)]
    ELSE IF c.ret = 0
    THEN [s |-> c.s, cfg |-> cfg, sent |-> <<>>,
          result |-> Res("setconfig", 0, 0, FALSE, "", FALSE)]
    ELSE
    LET r == setconfig(c.s, cfg, line, how) IN
    [s |-> r.s, cfg |-> r.cfg, sent |-> r.sent,
     result |-> [Res("setconfig", 0, r.ret, r.raised, "", how # "ok")
                    EXCEPT !.wtmo = r.wtmo]]

SetConfigCall(E) ==
    \E c \in ConnectOutcomes(CurSess, E), line \in SetLines,
       how \in {"ok", "tmo", "tmocls"} :
        \E o \in {SetConfigOutcome(c, line, how)} :
        /\ SetSess(o.s)
        /\ cfg' = o.cfg
        /\ sent' = o.sent
        /\ result' = o.result
        /\ pre' = NoPre
        /\ UNCHANGED <<status, lastSavedId, slots, bkup, scope>>

\* Somebody turns a knob of the scope; the knobs of the logic input are
\* those of a scope that has it
PanelChange ==
    /\ \E c \in Configs :
          /\ c # cfg
          /\ "LOGIC" \notin scope.opts => c.pod = cfg.pod
          /\ cfg' = c
    /\ result' = NoRes
    /\ sent' = <<>>
    /\ pre' = NoPre
    /\ UNCHANGED <<inst, rm, devname, opt, open, timeout, status,
                   lastSavedId, slots, bkup, scope>>

\* a slip: the name of the file built without arg
WriteFirstSlot(sl, arg, lrn) == [sl EXCEPT ![1] = File(lrn)]

\* with open(datfile, mode='w') as fp: fp.write(lrn), datfile named by arg
WriteSlot(sl, arg, lrn) == [sl EXCEPT ![arg] = File(lrn)]

\* Gui.saveconfig(arg).  c: how its connect() ends; qOk: whether every
\* query of getconfig() is answered.  The handler ends with self.saveid =
\* arg: an attribute nothing reads, and not self.lastSavedId, which stays
\* as __init__ set it
SaveOutcome(c, qOk, arg) ==
    LET keep == [status |-> status, slots |-> slots, bkup |-> bkup,
                 pre |-> NoPre]
    IN
    IF c.raised
    THEN keep @@ [result |-> Res("save", arg, -1, TRUE, "", TRUE)]
    ELSE IF c.ret = 0
    THEN [keep EXCEPT !.status = "failed"] @@
         [result |-> Res("save", arg, 0, FALSE, "", FALSE)]
    ELSE IF ~qOk
    THEN [keep EXCEPT !.status = "connected"] @@
         [result |-> Res("save", arg, -1, TRUE, "", TRUE)]
    ELSE
    LET lrn == getconfig(c.s, cfg) IN
    [status |-> "connected",
     bkup   |-> IF slots[arg].exists THEN slots[arg] ELSE bkup,
     slots  |-> WriteSlot(slots, arg, lrn),
     pre    |-> [NoPre EXCEPT !.slot = slots[arg]],
     result |-> Res("save", arg, arg, FALSE, "saved.", FALSE)]

saveconfig(arg, E) ==
    \E c \in ConnectOutcomes(CurSess, E), qOk \in E.qOk :
        \E o \in {SaveOutcome(c, qOk, arg)} :
        /\ SetSess(c.s)
        /\ status' = o.status
        /\ slots' = o.slots
        /\ bkup' = o.bkup
        /\ pre' = o.pre
        /\ result' = o.result
        /\ sent' = <<>>
        /\ UNCHANGED <<lastSavedId, scope, cfg>>

\* the last line of a file whose write the model lets time out
MaxFailLine == 2

\* Where the one write that times out in a load or an undo can be: nowhere
\* (0) or at one of the first lines
FailPoints(lines) ==
    0..(IF Len(lines) < MaxFailLine THEN Len(lines) ELSE MaxFailLine)

\* Gui.loadconfig(arg).  c: how its connect() ends; qOk: whether every
\* query of getconfig() is answered; failAt, clsOk: see SendLines
LoadOutcome(c, qOk, failAt, clsOk, arg) ==
    LET keep == [s |-> c.s, status |-> status, bkup |-> bkup, cfg |-> cfg,
                 sent |-> <<>>, pre |-> NoPre]
        saved == c.s.timeout
        s1 == [c.s EXCEPT !.timeout = 10000]
    IN
    IF c.raised
    THEN keep @@ [result |-> Res("load", arg, -1, TRUE, "", TRUE)]
    ELSE IF c.ret = 0
    THEN [keep EXCEPT !.status = "failed"] @@
         [result |-> Res("load", arg, 0, FALSE, "", FALSE)]
    ELSE IF ~qOk
    THEN [keep EXCEPT !.status = "connected", !.s = s1] @@
         [result |-> Res("load", arg, -1, TRUE, "", TRUE)]
    ELSE
    LET lrn == getconfig(s1, cfg)
        r == SendLines(s1, cfg, slots[arg].lines, 1, failAt, clsOk, <<>>)
    IN
    IF ~slots[arg].exists
    THEN [s |-> [s1 EXCEPT !.timeout = saved], status |-> "connected",
          bkup |-> File(lrn), cfg |-> cfg, sent |-> <<>>,
          pre |-> [NoPre EXCEPT !.cfg = cfg],
          result |-> Res("load", arg, 0, FALSE, "not found", FALSE)]
    ELSE IF r.raised
    THEN [s |-> r.s, status |-> "connected", bkup |-> File(lrn),
          cfg |-> r.cfg, sent |-> r.sent,
          pre |-> [NoPre EXCEPT !.cfg = cfg],
          result |-> Res("load", arg, -1, TRUE, "", TRUE)]
    ELSE [s |-> [r.s EXCEPT !.timeout = saved], status |-> "connected",
          bkup |-> File(lrn), cfg |-> r.cfg, sent |-> r.sent,
          pre |-> [NoPre EXCEPT !.cfg = cfg],
          result |-> Res("load", arg, arg, FALSE, "loaded.", failAt # 0)]

loadconfig(arg, E) ==
    \E c \in ConnectOutcomes(CurSess, E), qOk \in E.qOk,
       failAt \in FailPoints(slots[arg].lines), clsOk \in E.clsOk :
        \E o \in {LoadOutcome(c, qOk, failAt, clsOk, arg)} :
        /\ SetSess(o.s)
        /\ status' = o.status
        /\ bkup' = o.bkup
        /\ cfg' = o.cfg
        /\ sent' = o.sent
        /\ pre' = o.pre
        /\ result' = o.result
        /\ UNCHANGED <<lastSavedId, slots, scope>>

\* Gui.undoSave(): the slot is named by self.lastSavedId, which __init__
\* sets to -1; saveconfig() writes self.saveid and undoSave() and
\* loadconfig() write self.lastSavedID, other attributes
undoSave ==
    /\ IF lastSavedId > 0
       THEN IF bkup.exists
            THEN /\ slots' = [slots EXCEPT ![lastSavedId] = bkup]
                 /\ bkup' = Absent
            ELSE UNCHANGED <<slots, bkup>>
       ELSE UNCHANGED <<slots, bkup>>
    /\ result' = Res("undoSave", 0, -1, FALSE, "", FALSE)
    /\ sent' = <<>>
    /\ pre' = NoPre
    /\ UNCHANGED <<inst, rm, devname, opt, open, timeout, status,
                   lastSavedId, scope, cfg>>

\* Gui.undoLoad(arg).  setconfig() calls connect() when no transport is
\* bound (c: how that ends; the bus is taken not to change while the
\* handler runs) and returns False, sending nothing, when none is found.
\* After the loop the handler calls shutil.remove, which the module shutil
\* does not have: AttributeError leaves the handler, the backup stays.
UndoLoadOutcome(c, failAt, clsOk) ==
    IF ~bkup.exists
    THEN [s |-> CurSess, cfg |-> cfg, sent |-> <<>>,
          result |-> Res("undoLoad", 0, -1, FALSE, "not found", FALSE)]
    ELSE IF bkup.lines = <<>>
    THEN [s |-> CurSess, cfg |-> cfg, sent |-> <<>>,
          result |-> Res("undoLoad", 0, -1, TRUE, "AttributeError", FALSE)]
    ELSE IF c.raised
    THEN [s |-> c.s, cfg |-> cfg, sent |-> <<>>,
          result |-> Res("undoLoad", 0, -1, TRUE, "VisaIOError", TRUE)]
    ELSE IF c.ret = 0
    THEN [s |-> c.s, cfg |-> cfg, sent |-> <<>>,
          result |-> Res("undoLoad", 0, -1, TRUE, "AttributeError", FALSE)]
    ELSE
    LET r == SendLines(c.s, cfg, bkup.lines, 1, failAt, clsOk, <<>>) IN
    [s |-> r.s, cfg |-> r.cfg, sent |-> r.sent,
     result |-> Res("undoLoad", 0, -1, TRUE,
                    IF r.raised THEN "VisaIOError" ELSE "AttributeError",
                    failAt # 0)]

undoLoad(arg, E) ==
    \E c \in ConnectOutcomes(CurSess, E),
       failAt \in FailPoints(bkup.lines), clsOk \in E.clsOk :
        \E o \in {UndoLoadOutcome(c, failAt, clsOk)} :
        /\ SetSess(o.s)
        /\ cfg' = o.cfg
        /\ sent' = o.sent
        /\ result' = [o.result EXCEPT !.arg = arg]
        /\ pre' = NoPre
        /\ UNCHANGED <<status, lastSavedId, slots, bkup, scope>>

\* The replies to ':IMAGe:SEND?;' that the session specification draws
\* from: a block without and with a terminator before its payload, a reply
\* without a marker, no reply, a reply cut short
CaptureReplies ==
    { <<"#", "1", "1", "x", "nl">>, <<"#", "1", "1", "nl", "x", "nl">>,
      <<"x", "x", "x">>, <<>>, <<"#", "1", "2", "x">> }

\* The writes and queries of capture() that can time out: one of the four
\* set-up writes ("setup"), the write of ':IMAGe:SEND?;' ("send"), the
\* '*CLS' of an except clause ("cls"), the closing '*WAI;*CLS;' ("final")
CaptureFaults == {"none", "setup", "send", "cls", "final"}

SetupLines ==
    << <<Cmd("CLS", 0)>>, <<Cmd("IMAGE", 0)>>, <<Cmd("IMAGE", 1)>>,
       <<Cmd("STOP", 0)>> >>
SendLine == <<Cmd("SEND", 0)>>
FinalLine == <<Cmd("WAI", 0), Cmd("CLS", 0)>>

\* YokogawaDL7480.capture() with a transport bound: the writes, the raised
\* timeout, the decoding of the reply, the closing write.  ret: 1 for
\* (True, tmpfile), 0 for (False, message)
capture(s, reply, fault) ==
    LET s1 == [s EXCEPT !.timeout = 10000]
        d == DecodeBlock(reply)
    IN
    IF fault = "setup"
    THEN [s |-> s, sent |-> SetupLines, ret |-> -1, raised |-> TRUE,
          msg |-> "", data |-> <<>>]
    ELSE IF fault = "send"
    THEN [s |-> s1, sent |-> Append(SetupLines, SendLine), ret |-> -1,
          raised |-> TRUE, msg |-> "", data |-> <<>>]
    ELSE IF d.stage = "header"
    THEN [s |-> s1, sent |-> SetupLines \o <<SendLine, ClsLine>>,
          ret |-> IF fault = "cls" THEN -1 ELSE 0,
          raised |-> fault = "cls",
          msg |-> "response from oscilloscope is unexpected. Aborted.",
          data |-> <<>>]
    ELSE IF d.stage = "body"
    THEN [s |-> s1, sent |-> Append(SetupLines, SendLine), ret |-> 0,
          raised |-> FALSE, msg |-> "timeout during capturing",
          data |-> <<>>]
    ELSE [s |-> s1, sent |-> SetupLines \o <<SendLine, FinalLine>>,
          ret |-> IF fault = "final" THEN -1 ELSE 1,
          raised |-> fault = "final", msg |-> "", data |-> d.data]

\* Gui.capture(): connect() when the status is not 'connected', then
\* YokogawaDL7480.capture(), which calls connect() itself.  At most one of
\* the two calls scans: c is how that one ends.
CaptureOutcome(c, reply, fault) ==
    IF c.raised
    THEN [s |-> c.s, status |-> status, sent |-> <<>>,
          result |-> Res("capture", 0, -1, TRUE, "", TRUE)]
    ELSE IF c.ret = 0
    THEN [s |-> c.s,
          status |-> IF status # "connected" THEN "failed" ELSE status,
          sent |-> <<>>,
          result |-> Res("capture", 0, 0, FALSE,
                         IF status # "connected" THEN ""
                         ELSE "Oscilloscope not found", FALSE)]
    ELSE
    LET r == capture(c.s, reply, fault) IN
    [s |-> r.s, status |-> "connected", sent |-> r.sent,
     result |-> Res("capture", 0, r.ret, r.raised, r.msg,
                    r.raised \/ r.ret = 0)]

GuiCapture(E) ==
    \E c \in ConnectOutcomes(CurSess, E), reply \in CaptureReplies,
       fault \in CaptureFaults :
        \E o \in {CaptureOutcome(c, reply, fault)} :
        /\ SetSess(o.s)
        /\ status' = o.status
        /\ sent' = o.sent
        /\ result' = o.result
        /\ pre' = NoPre
        /\ UNCHANGED <<lastSavedId, slots, bkup, scope, cfg>>

-----------------------------------------------------------------------------
(***************************************************************************)
(* The specification of the session                                        *)
(***************************************************************************)
ChunkIdle == chunkIn = <<>> /\ chunkOut = <<>>
NoBlock ==
    [stream |-> <<>>, lead |-> <<>>, payload |-> <<>>, term |-> FALSE,
     digits |-> 0]
NotDecoded ==
    [done |-> FALSE, stage |-> "header", err |-> "none", nbyte |-> 0,
     data |-> <<>>, marker |-> FALSE]
BlockIdle == blockIn = NoBlock /\ blockOut = NotDecoded
NotFiltered == [done |-> FALSE, line |-> <<>>]
FilterIdle == filterIn = <<>> /\ filterOut = NotFiltered
NoSnapIn == [sec |-> "", reply |-> <<>>]
NoSnapshot == [done |-> FALSE, lines |-> <<>>]
SnapIdle == snapIn = NoSnapIn /\ snapOut = NoSnapshot
LoopIdle == loopS = <<>> /\ loopR = <<>> /\ loopPc = "idle"

\* Gui.__init__ and YokogawaDL7480.__init__, no file written yet, some
\* scope on the bench in some configuration
SessionInit ==
    /\ inst = 0
    /\ rm = FALSE
    /\ devname = ""
    /\ opt = {}
    /\ open = {}
    /\ timeout = 0
    /\ status = "init"
    /\ lastSavedId = -1
    /\ slots = [n \in Slots |-> Absent]
    /\ bkup = Absent
    /\ scope \in Scopes
    /\ cfg \in Configs
    /\ result = NoRes
    /\ sent = <<>>
    /\ pre = NoPre

Init ==
    /\ SessionInit
    /\ ChunkIdle
    /\ BlockIdle
    /\ FilterIdle
    /\ SnapIdle
    /\ LoopIdle

\* The session on a bus of several instruments
Next ==
    \/ ConnectCall(AnyBus) /\ UNCHANGED <<chunkVars, blockVars, filterVars, snapVars,
                    loopVars>>
    \/ CloseInstCall /\ UNCHANGED <<chunkVars, blockVars, filterVars, snapVars,
                    loopVars>>
    \/ DelCall /\ UNCHANGED <<chunkVars, blockVars, filterVars, snapVars,
                    loopVars>>
    \/ GuiCapture(AnyBus) /\ UNCHANGED <<chunkVars, blockVars, filterVars, snapVars,
                    loopVars>>
    \/ SetConfigCall(AnyBus) /\ UNCHANGED <<chunkVars, blockVars, filterVars, snapVars,
                    loopVars>>

Spec == Init /\ [][Next]_vars

\* The slot files and the scope on the bench
NextStore ==
    \/ PanelChange /\ UNCHANGED <<chunkVars, blockVars, filterVars, snapVars,
                    loopVars>>
    \/ DelCall /\ UNCHANGED <<chunkVars, blockVars, filterVars, snapVars,
                    loopVars>>
    \/ (\E n \in Slots : saveconfig(n, Bench))
       /\ UNCHANGED <<chunkVars, blockVars, filterVars, snapVars,
                    loopVars>>
    \/ (\E n \in Slots : loadconfig(n, Bench))
       /\ UNCHANGED <<chunkVars, blockVars, filterVars, snapVars,
                    loopVars>>
    \/ undoSave /\ UNCHANGED <<chunkVars, blockVars, filterVars, snapVars,
                    loopVars>>
    \/ (\E n \in Slots : undoLoad(n, Bench))
       /\ UNCHANGED <<chunkVars, blockVars, filterVars, snapVars,
                    loopVars>>

SpecStore == Init /\ [][NextStore]_vars

\* One scope with its options on the bench: every handler of the Gui, the
\* scope being free to let a '*CLS' time out during a load
InitHandlers ==
    /\ Init
    /\ scope = [idn |-> "701470", opts |-> {"LOGIC", "USERDEFINE"}]

NextHandlers ==
    \/ PanelChange /\ UNCHANGED <<chunkVars, blockVars, filterVars, snapVars,
                    loopVars>>
    \/ (\E n \in Slots : saveconfig(n, Bench))
       /\ UNCHANGED <<chunkVars, blockVars, filterVars, snapVars,
                    loopVars>>
    \/ (\E n \in Slots : loadconfig(n, HungBench))
       /\ UNCHANGED <<chunkVars, blockVars, filterVars, snapVars,
                    loopVars>>
    \/ undoSave /\ UNCHANGED <<chunkVars, blockVars, filterVars, snapVars,
                    loopVars>>
    \/ (\E n \in Slots : undoLoad(n, Bench))
       /\ UNCHANGED <<chunkVars, blockVars, filterVars, snapVars,
                    loopVars>>
    \/ GuiCapture(Bench)
       /\ UNCHANGED <<chunkVars, blockVars, filterVars, snapVars,
                    loopVars>>

SpecHandlers == InitHandlers /\ [][NextHandlers]_vars

-----------------------------------------------------------------------------
(***************************************************************************)
(* splitInst on its own: the strings getconfig() hands it are replies of   *)
(* the scope, sections ':GROUP:...' joined by ';', as they come (cursor,   *)
(* trigger, ...), behind '*WAI;' (search, zoom) or with the outer colons   *)
(* stripped (display, math)                                                *)
(***************************************************************************)
MaxSections == 3
SectionLens == {8, 508, 1016, 1017, 1019}
Leads == {"colon", "wai", "bare", "semi"}
Tails == {<<>>, <<SEMI, NL>>}

\* section i of a reply: ':' and n - 1 characters that are neither ';'
\* nor a newline
Section(i, n) == <<COLON, Txt(i, n - 1)>>

RECURSIVE JoinSections(_, _)
JoinSections(lens, i) ==
    IF i > Len(lens) THEN <<>>
    ELSE (IF i = 1 THEN <<>> ELSE <<SEMI>>) \o Section(i, lens[i])
         \o JoinSections(lens, i + 1)

Reply(lens, lead, tail) ==
    LET body == JoinSections(lens, 1) IN
    CASE lead = "colon" -> body \o tail
      [] lead = "wai"   -> <<WAI, SEMI>> \o body \o tail
      [] lead = "semi"  -> <<NL, SEMI>> \o body \o tail
      [] OTHER          -> Tail(body) \o tail

Replies ==
    {Reply(lens, lead, tail) :
        lens \in (SeqsUpTo(SectionLens, MaxSections) \ {<<>>}),
        lead \in Leads, tail \in Tails}

InitChunk ==
    /\ SessionInit
    /\ scope = [idn |-> "701470", opts |-> {}]
    /\ cfg = [acq |-> 0, pod |-> 0]
    /\ BlockIdle
    /\ FilterIdle
    /\ SnapIdle
    /\ LoopIdle
    /\ chunkIn \in Replies
    /\ chunkOut = <<>>

SplitCall ==
    /\ chunkOut = <<>>
    /\ chunkOut' = splitInstChunks(chunkIn)
    /\ UNCHANGED <<sessionVars, blockVars, filterVars, snapVars,
                 loopVars, chunkIn>>

SpecChunk == InitChunk /\ [][SplitCall]_vars

-----------------------------------------------------------------------------
(***************************************************************************)
(* splitInst step by step on the same strings: the test of the length, the *)
(* iterations of the while loop, the statement after the loop.  The loop   *)
(* is not interrupted: a step that can be taken is taken.                  *)
(***************************************************************************)
InitLoop ==
    /\ SessionInit
    /\ scope = [idn |-> "701470", opts |-> {}]
    /\ cfg = [acq |-> 0, pod |-> 0]
    /\ BlockIdle
    /\ FilterIdle
    /\ SnapIdle
    /\ chunkIn \in Replies
    /\ chunkOut = <<>>
    /\ loopS = <<>>
    /\ loopR = <<>>
    /\ loopPc = "start"

\* lines 568-573: the short argument is returned wrapped; a longer one is
\* trimmed and put between ';' for the loop
SplitEnter ==
    /\ loopPc = "start"
    /\ IF StrLen(chunkIn) < WholeLimit
       THEN /\ chunkOut' = << <<WAI, SEMI>> \o Strip(chunkIn, {"semi", "nl"})
                                \o <<NL>> >>
            /\ loopPc' = "done"
            /\ UNCHANGED <<loopS, loopR>>
       ELSE /\ loopS' = <<SEMI>> \o Strip(chunkIn, {"semi", "nl"}) \o <<SEMI>>
            /\ loopR' = <<>>
            /\ loopPc' = "loop"
            /\ UNCHANGED chunkOut
    /\ UNCHANGED <<sessionVars, blockVars, filterVars, snapVars, chunkIn>>

\* lines 574-577: one iteration of the while loop
SplitStep ==
    /\ loopPc = "loop"
    /\ ReSearch(loopS) # 0
    /\ loopR' = Append(loopR, ChunkOfMatch(loopS, ReSearch(loopS)))
    /\ loopS' = RestAfterMatch(loopS, ReSearch(loopS))
    /\ UNCHANGED <<sessionVars, blockVars, filterVars, snapVars, chunkVars,
                   loopPc>>

\* lines 578-580: no match any more; the rest is appended, r is returned
SplitExit ==
    /\ loopPc = "loop"
    /\ ReSearch(loopS) = 0
    /\ loopR' = IF StrLen(loopS) > 0 THEN Append(loopR, LastChunk(loopS))
                ELSE loopR
    /\ chunkOut' = loopR'
    /\ loopPc' = "done"
    /\ UNCHANGED <<sessionVars, blockVars, filterVars, snapVars, chunkIn,
                   loopS>>

NextLoop == SplitEnter \/ SplitStep \/ SplitExit

SpecLoop == InitLoop /\ [][NextLoop]_vars /\ WF_vars(NextLoop)

-----------------------------------------------------------------------------
(***************************************************************************)
(* The decoding of a definite-length block on its own: '#', one digit d,   *)
(* d digits giving the length N, the payload of N bytes, a newline; the    *)
(* scope may put a newline between the length and the payload              *)
(***************************************************************************)
MaxPayload == 2
PayloadBytes == {"x", "nl", "#", "7"}
DigitCounts == {1, 2}

DigitOf(n) == Digits[n + 1]

\* n written with w decimal digits
RECURSIVE Decimal(_, _)
Decimal(n, w) ==
    IF w = 0 THEN <<>> ELSE Append(Decimal(n \div 10, w - 1), DigitOf(n % 10))

Frame(payload, w, term) ==
    <<"#", DigitOf(w)>> \o Decimal(Len(payload), w)
    \o (IF term THEN <<"nl">> ELSE <<>>) \o payload \o <<"nl">>

\* What the scope sends where the marker belongs: the marker, the marker
\* behind one or two other bytes, two other bytes, nothing
MarkerLeads == {<<"#">>, <<"x", "#">>, <<"x", "x", "#">>, <<"x", "x">>, <<>>}

Frames ==
    {[stream |-> lead \o Tail(Frame(p, w, term)), lead |-> lead,
      payload |-> p, term |-> term, digits |-> w] :
        p \in SeqsUpTo(PayloadBytes, MaxPayload), w \in DigitCounts,
        term \in BOOLEAN, lead \in MarkerLeads}

InitBlock ==
    /\ SessionInit
    /\ scope = [idn |-> "701470", opts |-> {}]
    /\ cfg = [acq |-> 0, pod |-> 0]
    /\ ChunkIdle
    /\ FilterIdle
    /\ SnapIdle
    /\ LoopIdle
    /\ blockIn \in Frames
    /\ blockOut = NotDecoded

DecodeCall ==
    /\ ~blockOut.done
    /\ blockOut' = [done |-> TRUE] @@ DecodeBlock(blockIn.stream)
    /\ UNCHANGED <<sessionVars, chunkVars, filterVars, snapVars,
                 loopVars, blockIn>>

SpecBlock == InitBlock /\ [][DecodeCall]_vars

-----------------------------------------------------------------------------
(***************************************************************************)
(* The option filter of getconfig() on its own: a session bound to a       *)
(* DL7480 with some options stored, and the reply of the scope to          *)
(* ':DISPlay?', commands of the display with those of the logic pods at    *)
(* any place among them                                                    *)
(***************************************************************************)
MaxCmds == 3
DisplayCmds == {Cmd("DISP", 0), Cmd("DISP", 1)} \cup {Cmd("POD", v) : v \in Vals}
StoredOpts == {{}, {"USERDEFINE"}, {"LOGIC"}, {"LOGIC", "USERDEFINE"}}

InitFilter ==
    /\ inst = 1
    /\ rm = TRUE
    /\ devname = "DL7480"
    /\ opt \in StoredOpts
    /\ open = {1}
    /\ timeout = 5000
    /\ status = "connected"
    /\ lastSavedId = -1
    /\ slots = [n \in Slots |-> Absent]
    /\ bkup = Absent
    /\ scope = [idn |-> "701470", opts |-> opt]
    /\ cfg = [acq |-> 0, pod |-> 0]
    /\ result = NoRes
    /\ sent = <<>>
    /\ pre = NoPre
    /\ ChunkIdle
    /\ BlockIdle
    /\ SnapIdle
    /\ LoopIdle
    /\ filterIn \in (SeqsUpTo(DisplayCmds, MaxCmds) \ {<<>>})
    /\ filterOut = NotFiltered

FilterCall ==
    /\ ~filterOut.done
    /\ filterOut' = [done |-> TRUE, line |-> DisplayLine(CurSess, filterIn)]
    /\ UNCHANGED <<sessionVars, chunkVars, blockVars, snapVars,
                 loopVars, filterIn>>

SpecFilter == InitFilter /\ [][FilterCall]_vars

-----------------------------------------------------------------------------
(***************************************************************************)
(* getconfig() on its own: a session bound to a scope of either family,    *)
(* with the options stored or none, and the reply to one of the section    *)
(* queries of some length, the other replies being short                   *)
(***************************************************************************)
Queries ==
    {"ACQ", "CH1", "CH2", "CH3", "CH4", "CH5", "CH6", "CH7", "CH8", "CURS",
     "DISP", "MATH", "MEAS", "SEAR", "PHAS", "TBAS", "TRIG", "ZOOM"}
LongQueries ==
    {"ACQ", "CH1", "CH5", "CURS", "DISP", "MATH", "MEAS", "SEAR", "PHAS",
     "TBAS", "TRIG", "ZOOM"}

ShortReply == Reply(<<8>>, "colon", <<>>)
DeviceReplies ==
    {Reply(lens, "colon", <<>>) :
        lens \in (SeqsUpTo(SectionLens, MaxSections) \ {<<>>})}

RepliesWith(sec, reply) ==
    [q \in Queries |-> IF q = sec THEN reply ELSE ShortReply]

InitSnap ==
    /\ inst = 1
    /\ rm = TRUE
    /\ devname \in {"DL7440", "DL7480"}
    /\ opt \in OptReplies
    /\ open = {1}
    /\ timeout = 5000
    /\ status = "connected"
    /\ lastSavedId = -1
    /\ slots = [n \in Slots |-> Absent]
    /\ bkup = Absent
    /\ scope = [idn |-> IF devname = "DL7480" THEN "701470" ELSE "701460",
                opts |-> opt]
    /\ cfg = [acq |-> 0, pod |-> 0]
    /\ result = NoRes
    /\ sent = <<>>
    /\ pre = NoPre
    /\ ChunkIdle
    /\ BlockIdle
    /\ FilterIdle
    /\ LoopIdle
    /\ snapIn \in [sec : LongQueries, reply : DeviceReplies]
    /\ snapOut = NoSnapshot

SnapCall ==
    /\ ~snapOut.done
    /\ snapOut' = [done |-> TRUE,
                   lines |-> SnapshotLines(CurSess,
                                 RepliesWith(snapIn.sec, snapIn.reply))]
    /\ UNCHANGED <<sessionVars, chunkVars, blockVars, filterVars,
                 loopVars, snapIn>>

SpecSnap == InitSnap /\ [][SnapCall]_vars

-----------------------------------------------------------------------------
(***************************************************************************)
(* Properties of the slot files                                            *)
(***************************************************************************)

\* C1: a successful save of slot n followed at once by undoSave leaves slot
\* n holding what it held before the save, or absent if it was absent.
C1_UndoSaveRestoresSlot ==
    [][(/\ result.op = "save"
        /\ result.ret = result.arg
        /\ result.arg \in Slots
        /\ result'.op = "undoSave")
       => slots'[result.arg] = pre.slot]_vars

\* C2: a load, on a connected session, of a slot whose file does not exist
\* returns 0, reports 'not found' and leaves every slot and the backup as
\* they were.
C2_LoadMissingSlotChangesNothing ==
    [][(/\ inst # 0
        /\ result'.op = "load"
        /\ ~slots[result'.arg].exists)
       => /\ result'.ret = 0
          /\ result'.msg = "not found"
          /\ slots' = slots
          /\ bkup' = bkup]_vars

\* C3: a load of an existing slot followed by undoLoad, no write of either
\* failing, leaves the configuration of the scope as it was before the
\* load.
C3_UndoLoadRestoresDevice ==
    [][(/\ result.op = "load"
        /\ result.ret = result.arg
        /\ result.arg \in Slots
        /\ ~result.fault
        /\ result'.op = "undoLoad"
        /\ result'.arg = result.arg
        /\ ~result'.fault)
       => cfg' = pre.cfg]_vars

\* The last handler run was a save that succeeded
SavedLast ==
    /\ result.op = "save"
    /\ result.ret = result.arg
    /\ result.arg \in Slots

\* C15: undoSave moves the backup into slot n and clears the backup when a
\* backup exists and the last operation was a successful save of slot n;
\* with no backup, or after a load, it changes no slot and not the backup.
C15_UndoSaveActsAfterSave ==
    [][result'.op = "undoSave"
       => /\ (bkup.exists /\ SavedLast)
             => /\ slots' = [slots EXCEPT ![result.arg] = bkup]
                /\ bkup' = Absent
          /\ (~bkup.exists \/ result.op = "load")
             => /\ slots' = slots
                /\ bkup' = bkup]_vars

\* C16: undoLoad with a backup present writes the lines of the backup to
\* the scope, in the order of the file, and deletes the backup; with no
\* backup it writes nothing and reports that the backup was not found.
C16_UndoLoadConsumesBackup ==
    [][result'.op = "undoLoad"
       => /\ (bkup.exists /\ ~result'.fault)
             => /\ sent' = bkup.lines
                /\ bkup' = Absent
          /\ ~bkup.exists
             => /\ sent' = <<>>
                /\ result'.msg = "not found"
                /\ bkup' = Absent]_vars

\* C17: after a successful save of slot n the backup holds what slot n held
\* before (nothing, if it held nothing); after a successful load it holds
\* the snapshot of the configuration the scope had before the load; it
\* never holds what an earlier operation left.
C17_BackupIsOfLastOperation ==
    [][/\ (/\ result'.op = "save"
           /\ result'.ret = result'.arg
           /\ result'.arg \in Slots)
          => bkup' = slots[result'.arg]
       /\ (/\ result'.op = "load"
           /\ result'.ret = result'.arg
           /\ result'.arg \in Slots)
          => bkup' = File(getconfig([CurSess EXCEPT !.inst = inst',
                                                    !.devname = devname',
                                                    !.opt = opt'], cfg))]_vars

\* The lines written, without the '*CLS' of the except clauses
RECURSIVE WithoutCls(_)
WithoutCls(log) ==
    IF log = <<>> THEN <<>>
    ELSE IF Head(log) = ClsLine THEN WithoutCls(Tail(log))
    ELSE <<Head(log)>> \o WithoutCls(Tail(log))

\* The last handler run was a load of an existing slot that came to write
\* the first line of the slot
Replayed ==
    /\ result.op = "load"
    /\ result.arg \in Slots
    /\ slots[result.arg].exists
    /\ sent # <<>>

\* C21: a load of an existing slot writes every line of the slot, each
\* once and in the order of the file, whether or not the write of a line
\* fails, and returns the number of the slot.
C21_LoadSendsEveryLine ==
    Replayed => /\ WithoutCls(sent) = slots[result.arg].lines
                /\ result.ret = result.arg
                /\ ~result.raised

\* C23: a save of slot n changes no other slot; a load, an undo of a load
\* and a capture change no slot; slot m changes only by a save of slot m or
\* by an undo of a save that names m.
C23_SlotsChangeBySaveOnly ==
    [][\A m \in Slots :
          slots'[m] # slots[m]
          => \/ result'.op = "save" /\ result'.arg = m
             \/ result'.op = "undoSave" /\ lastSavedId = m]_vars

\* A save has replaced the content of a slot while another slot holds a
\* file and the backup file exists
C23_SavedBesideOtherSlot ==
    /\ SavedLast
    /\ pre.slot.exists
    /\ pre.slot # slots[result.arg]
    /\ \E m \in Slots \ {result.arg} : slots[m].exists
    /\ bkup.exists

-----------------------------------------------------------------------------
(***************************************************************************)
(* Properties of the block decoder                                         *)
(***************************************************************************)

\* C4: a block framed as '#', digit count, length, payload, newline, with
\* or without a newline before the payload, decodes to the payload, for
\* payloads of every length from 0 on.
C4_BlockRoundTrip ==
    (blockOut.done /\ blockIn.lead = <<"#">>) =>
        /\ blockOut.stage = "done"
        /\ blockOut.data = blockIn.payload

\* The marker is the first byte of the reply, or the second behind a first
\* that is not the marker
MarkerFound(st) ==
    /\ Len(st) >= 1
    /\ \/ st[1] = "#"
       \/ Len(st) >= 2 /\ st[2] = "#"

\* C11: capture() goes on to the length field only when the first byte is
\* '#', or the first is not and the second is; for any other reply it
\* fails before the length field and decodes no image.
C11_OneStrayByteAtMost ==
    (blockOut.done /\ ~MarkerFound(blockIn.stream)) =>
        blockOut.stage = "header"

\* C18: when the decoding succeeds the payload has as many bytes as the
\* header declares, 0 included.
C18_PayloadLengthAsDeclared ==
    (blockOut.done /\ blockOut.stage = "done") =>
        Len(blockOut.data) = blockOut.nbyte

-----------------------------------------------------------------------------
(***************************************************************************)
(* Properties of splitInst                                                 *)
(***************************************************************************)
LineLimit == 1024
Split == chunkOut # <<>>
AtLimit == StrLen(chunkIn) >= WholeLimit

\* C5: every line splitInst emits for a string at or over the limit, the
\* '*WAI;', the payload and the newline together, is at most 1024 bytes.
C5_EveryChunkWithinLimit ==
    (Split /\ AtLimit) =>
        \A i \in 1..Len(chunkOut) : StrLen(chunkOut[i]) <= LineLimit

\* The sections of a string: what lies between one ';' that a ':' follows
\* and the next
RECURSIVE SectionsFrom(_, _, _)
SectionsFrom(s, cur, acc) ==
    IF s = <<>> THEN Append(acc, cur)
    ELSE IF Head(s).k = "semi" /\ Len(s) >= 2 /\ s[2].k = "colon"
    THEN SectionsFrom(Tail(s), <<>>, Append(acc, cur))
    ELSE SectionsFrom(Tail(s), Append(cur, Head(s)), acc)

SectionsOf(s) == SectionsFrom(Strip(s, {"semi", "nl"}), <<>>, <<>>)

\* What a chunk line carries behind its '*WAI;'
PayloadOf(line) == SubSeq(line, 3, Len(line))

RECURSIVE SectionsOfChunks(_, _)
SectionsOfChunks(lines, i) ==
    IF i > Len(lines) THEN <<>>
    ELSE SectionsOf(PayloadOf(lines[i])) \o SectionsOfChunks(lines, i + 1)

\* C6: the sections of the lines splitInst emits for a string at or over
\* the limit, taken in the order of the lines, are the sections of the
\* string in their order, each once and none split over two lines.
C6_ChunksKeepSections ==
    (Split /\ AtLimit) => SectionsOfChunks(chunkOut, 1) = SectionsOf(chunkIn)

\* A string of several sections that was split into several lines
C6_SplitInSeveral ==
    /\ Split
    /\ AtLimit
    /\ Len(chunkOut) >= 2
    /\ Len(SectionsOf(chunkIn)) >= 3

\* t is s without the ';' and newlines it starts and ends with
IsTrimOf(t, s) ==
    \E i \in 1..(Len(s) + 1), j \in 0..Len(s) :
        /\ t = SubSeq(s, i, j)
        /\ \A k \in 1..(i - 1) : s[k].k \in {"semi", "nl"}
        /\ \A k \in (j + 1)..Len(s) : s[k].k \in {"semi", "nl"}
        /\ t # <<>> => /\ t[1].k \notin {"semi", "nl"}
                       /\ t[Len(t)].k \notin {"semi", "nl"}

\* C20: for a string shorter than 1018 bytes splitInst gives one line:
\* '*WAI;', the string without the ';' and newlines at its ends, a newline.
C20_ShortStringOneChunk ==
    (Split /\ StrLen(chunkIn) < 1018) =>
        /\ Len(chunkOut) = 1
        /\ LET line == chunkOut[1] IN
           /\ Len(line) >= 3
           /\ line[1] = WAI /\ line[2] = SEMI /\ line[Len(line)] = NL
           /\ IsTrimOf(SubSeq(line, 3, Len(line) - 1), chunkIn)

\* A short string of several sections, with a newline and ';' to trim at
\* both ends, has been wrapped
C20_ShortStringTrimmed ==
    /\ Split
    /\ StrLen(chunkIn) < 1018
    /\ Len(SectionsOf(chunkIn)) >= 2
    /\ Head(chunkIn).k = "nl"
    /\ chunkIn[Len(chunkIn)].k = "nl"

\* C22: every line of the snapshot getconfig() returns, which is every
\* string a load or an undo of a load writes at once, is at most 1024 bytes
\* long, whatever the length of the replies of the scope.
C22_SnapshotLinesWithinLimit ==
    snapOut.done =>
        \A i \in 1..Len(snapOut.lines) : StrLen(snapOut.lines[i]) <= LineLimit

\* An iteration of the loop of splitInst has just been taken
Iterated == loopPc = "loop" /\ loopPc' = "loop" /\ loopR' # loopR

\* C24: splitInst ends on every string: each iteration of its loop leaves
\* a string strictly shorter than it found, the loop is left after finitely
\* many chunks, and what is left of the string is then emitted, once, as the
\* last chunk.
C24_SplitInstTerminates ==
    /\ [][Iterated => StrLen(loopS') < StrLen(loopS)]_vars
    /\ <>(loopPc = "done")
    /\ [][(loopPc = "loop" /\ loopPc' = "done")
          => /\ Len(chunkOut') = Len(loopR) + 1
             /\ chunkOut'[Len(chunkOut')] =
                    <<WAI, SEMI>> \o Strip(loopS, {"semi"}) \o <<NL>>
             /\ SubSeq(chunkOut', 1, Len(loopR)) = loopR]_vars

\* The loop has run twice and the rest was emitted behind its two chunks
C24_LoopRanTwice ==
    /\ loopPc = "done"
    /\ Len(loopR) = 3
    /\ chunkOut = loopR
    /\ StrLen(loopS) > 0

-----------------------------------------------------------------------------
(***************************************************************************)
(* Properties of the session                                               *)
(***************************************************************************)

\* C7: when connect() returns, found or not, every transport it opened and
\* did not retain is closed: no transport but the bound one is open.
C7_UnmatchedClosed ==
    result.op = "connect" => open \subseteq {inst}

\* C8: no failure of a write, a query or a read leaves connect(),
\* capture(), saveconfig() or loadconfig() as an exception.
C8_NoExceptionEscapes ==
    result.op \in {"connect", "capture", "save", "load"} => ~result.raised

\* C9: in every state the family is set exactly when a transport is bound.
C9_FamilyIffBound ==
    (devname # "") <=> (inst # 0)

\* The first candidate of a bus whose identification names a family, 0 if
\* there is none
FirstMatch(scan) ==
    LET hits == {i \in 1..Len(scan) : FamilyName(scan[i]) # ""} IN
    IF hits = {} THEN 0
    ELSE CHOOSE i \in hits : \A j \in hits : i <= j

\* C10: a scan tries the candidates in order, passes over those that do
\* not answer or name no family, binds the first that names one, with that
\* family, and goes no further; connect() returns True exactly when some
\* candidate named a family.
C10_ScanBindsFirstMatch ==
    [][(inst = 0 /\ result'.op = "connect")
       => LET m == FirstMatch(result'.scan) IN
          /\ (result'.ret = 1) <=> (m # 0)
          /\ m # 0 => /\ inst' = m
                      /\ devname' = FamilyName(result'.scan[m])
                      /\ result'.tried = m
          /\ m = 0 => /\ inst' = 0
                      /\ result'.tried = Len(result'.scan)]_vars

\* The last line a handler wrote is '*CLS'
ClsSentLast == sent # <<>> /\ sent[Len(sent)] = ClsLine

\* C12: when a read of capture() or the write of setconfig() times out and
\* the operation returns its failure, '*CLS' was written to the scope
\* before it returned.
C12_ClsBeforeFailure ==
    (/\ result.op \in {"capture", "setconfig"}
     /\ result.ret = 0
     /\ result.fault)
    => ClsSentLast

\* C13: when capture() returns, on any exit, with a transport that was
\* bound before the call, the timeout of the transport is what it was
\* before the call.
C13_TimeoutAsBefore ==
    [][(/\ inst # 0
        /\ result'.op = "capture"
        /\ ~result'.raised)
       => timeout' = timeout]_vars

\* C14: setconfig() on a connected session writes with the timeout at 20 s
\* and, returning True or False, leaves the timeout as it was before the
\* call.
C14_SetconfigRestoresTimeout ==
    [][(/\ inst # 0
        /\ result'.op = "setconfig"
        /\ result'.ret \in {0, 1})
       => /\ result'.wtmo = 20000
          /\ timeout' = timeout]_vars

\* setconfig() has returned False after a timeout, on a transport whose
\* timeout an earlier capture() had left at 10 s
C14_TimedOutWriteReturned ==
    /\ result.op = "setconfig"
    /\ result.ret = 0
    /\ result.fault
    /\ result.wtmo = 20000
    /\ timeout = 10000

-----------------------------------------------------------------------------
(***************************************************************************)
(* Properties of the option filter                                         *)
(***************************************************************************)
HasPod(line) == \E i \in 1..Len(line) : line[i].sec = "POD"

\* C19: without the LOGIC option the display line of the snapshot holds no
\* command of the logic pods, wherever such a command stands in the reply
\* of the scope; with the option the line is the reply as it came.
C19_NoPodWithoutLogic ==
    filterOut.done =>
        IF getopt(CurSess, "LOGIC")
        THEN filterOut.line = WaiLine(filterIn)
        ELSE ~HasPod(filterOut.line)

=============================================================================
